---- MODULE Spec2Model ----
(***************************************************************************)
(* Model of scripts/make_website.py: the recursive template renderer       *)
(* (_render_template), the page context builder (_page_context) and the    *)
(* page loop of main.                                                      *)
(*                                                                         *)
(* Text is a sequence of tokens.  A token is a piece of text INCLUDE_RE    *)
(* matches ("inc"), a piece VAR_RE matches ("var"), or a run of characters *)
(* that takes part in no match ("lit").  A context value is text too, so a *)
(* value may itself hold a piece VAR_RE matches.                           *)
(*                                                                         *)
(* A path is the sequence of its segments, "/" first when absolute.  Two   *)
(* paths are the same when their segments are, as for pathlib.             *)
(*                                                                         *)
(* The template files are the input.  A file's content is fixed the first  *)
(* time the program looks at the path (exists() or read_text()) and never  *)
(* changes afterwards.                                                     *)
(*                                                                         *)
(* The recursion of _render_template is the sequence frames of its         *)
(* activations; one step is one call of include_replacer, or the           *)
(* VAR_RE.sub and return of the running activation.                        *)
(***************************************************************************)
EXTENDS Integers, Sequences, FiniteSets, TLC

VARIABLES fs, pageIdx, pc, args, context, frames, rendered, error, written, reads, printed

vars == <<fs, pageIdx, pc, args, context, frames, rendered, error, written, reads, printed>>

\* Bound: the number of tokens in all template files together.
MaxTokens == 3

----------------------------------------------------------------------------
\* Paths

ROOT_DIR == <<"/", "site">>

TEMPLATES_DIR == ROOT_DIR \o <<"templates">>

\* The include paths a template may spell (match.group(1) of INCLUDE_RE, which
\* admits a leading "/"), as segment sequences.
Rels == { <<"a.html">>, <<"b.html">>, <<"/", "o.html">> }

\* pathlib's "/" operator: an absolute right operand replaces the left one.
JoinPath(base, rel) == IF Len(rel) > 0 /\ rel[1] = "/" THEN rel ELSE base \o rel

IsUnder(p, base) == Len(p) >= Len(base) /\ SubSeq(p, 1, Len(base)) = base

\* p.relative_to(base): the segments below base; raises ValueError otherwise.
RelativeTo(p, base) ==
    IF IsUnder(p, base)
    THEN [ok |-> TRUE, rel |-> SubSeq(p, Len(base) + 1, Len(p))]
    ELSE [ok |-> FALSE, rel |-> <<>>]

Paths == { JoinPath(TEMPLATES_DIR, r) : r \in Rels }

----------------------------------------------------------------------------
\* Text

Inc(rel) == [t |-> "inc", rel |-> rel]
Var(key) == [t |-> "var", key |-> key]
Lit(ch)  == [t |-> "lit", ch |-> ch]

\* What INCLUDE_RE and VAR_RE match.
INCLUDE_RE(tok) == tok.t = "inc"
VAR_RE(tok) == tok.t = "var"

\* The tokens template files are written with.
Tokens == { Inc(r) : r \in Rels } \cup { Var("page_title"), Var("zz"), Lit("x") }

TextsUpTo(n) == UNION { [1..k -> Tokens] : k \in 0..n }

Range(s) == { s[i] : i \in 1..Len(s) }

----------------------------------------------------------------------------
\* The file system: every path is not yet looked at, absent, or a file.

Unread == [st |-> "unread"]
Missing == [st |-> "missing"]
File(text) == [st |-> "file", text |-> text]

RECURSIVE SumLen(_, _)
SumLen(f, ps) ==
    IF ps = {} THEN 0
    ELSE LET p == CHOOSE q \in ps : TRUE
         IN (IF f[p].st = "file" THEN Len(f[p].text) ELSE 0) + SumLen(f, ps \ {p})

\* The contents a path may turn out to have when it is first looked at; a
\* path already looked at keeps what it has (templates do not change).
Reveal(f, p) ==
    IF f[p].st = "unread"
    THEN {Missing} \cup { File(t) : t \in TextsUpTo(MaxTokens - SumLen(f, DOMAIN f)) }
    ELSE { f[p] }

\* Mutant: the existence test left out.
ExistsAlways(f, p) == TRUE

\* Path.exists()
Exists(f, p) == f[p].st = "file"

\* Path.read_text() succeeds on a file only.
CanRead(f, p) == f[p].st = "file"

----------------------------------------------------------------------------
\* _page_context

ARIA_CURRENT == <<Lit(" aria-current=\"page\"")>>
W_CURRENT == <<Lit(" w--current")>>
EMPTY == <<>>

current_attrs(name, current) ==
    IF name = current THEN <<ARIA_CURRENT, W_CURRENT>> ELSE <<EMPTY, EMPTY>>

nav_brand(current) == current_attrs("home", current)
nav_home(current) == current_attrs("home", current)
nav_motorists(current) == current_attrs("motorists", current)
\* Mutant: the line above copied without its name changed.
nav_law_copied(current) == current_attrs("motorists", current)

nav_law(current) == current_attrs("law", current)
footer_brand(current) == current_attrs("home", current)
footer_home(current) == current_attrs("home", current)
footer_motorists(current) == current_attrs("motorists", current)
footer_law(current) == current_attrs("law", current)

_page_context(asset_prefix, page_title, page_description, current) ==
    [ asset_prefix |-> asset_prefix,
      page_title |-> page_title,
      page_description |-> page_description,
      page_og_title |-> page_title,
      page_og_description |-> page_description,
      page_twitter_title |-> page_title,
      page_twitter_description |-> page_description,
      nav_brand_aria |-> nav_brand(current)[1],
      nav_brand_current_class |-> nav_brand(current)[2],
      nav_home_aria |-> nav_home(current)[1],
      nav_home_current_class |-> nav_home(current)[2],
      nav_motorists_aria |-> nav_motorists(current)[1],
      nav_motorists_current_class |-> nav_motorists(current)[2],
      nav_law_aria |-> nav_law(current)[1],
      nav_law_current_class |-> nav_law(current)[2],
      footer_brand_aria |-> footer_brand(current)[1],
      footer_brand_current_class |-> footer_brand(current)[2],
      footer_home_aria |-> footer_home(current)[1],
      footer_home_current_class |-> footer_home(current)[2],
      footer_motorists_aria |-> footer_motorists(current)[1],
      footer_motorists_current_class |-> footer_motorists(current)[2],
      footer_law_aria |-> footer_law(current)[1],
      footer_law_current_class |-> footer_law(current)[2] ]

\* The keyword arguments main's page list passes to _page_context, widened
\* to titles that hold text VAR_RE matches and to every value of current.
Titles == { <<Lit("T"), Lit(" ")>>, <<Var("page_description")>>, <<Var("zz")>> }
Currents == { "home", "motorists", "law", "brand" }
PageArgs ==
    { [asset_prefix |-> IF c = "home" THEN EMPTY ELSE <<Lit("../")>>,
       page_title |-> t,
       page_description |-> <<Lit("D")>>,
       current |-> c] : t \in Titles, c \in Currents }

\* main's page list: template and output of each page.
Pages ==
    << [template |-> JoinPath(TEMPLATES_DIR, <<"a.html">>),
        output |-> JoinPath(ROOT_DIR, <<"index.html">>)],
       [template |-> JoinPath(TEMPLATES_DIR, <<"b.html">>),
        output |-> JoinPath(ROOT_DIR, <<"motorists", "index.html">>)] >>

----------------------------------------------------------------------------
\* _render_template

NoError == [type |-> "none"]

\* " -> ".join(parts): the parts with the separator between neighbours.
RECURSIVE Join(_, _)
Join(sep, parts) ==
    IF Len(parts) = 0 THEN <<>>
    ELSE IF Len(parts) = 1 THEN parts[1]
    ELSE parts[1] \o <<sep>> \o Join(sep, Tail(parts))

\* Mutant: a path counts as on the stack once it was read at all.
InStackVisited(path, stack) == path \in Range(reads)

\* Mutant: only the direct caller is compared.
InStackCallerOnly(path, stack) == Len(stack) > 0 /\ path = stack[Len(stack)]

\* if path in stack
InStack(path, stack) == path \in Range(stack)

\* The paths the cycle message lists: (*stack, path)
ChainPaths(stack, path) == Append(stack, path)

\* The exception of lines 17-18: RuntimeError with the chain, or the
\* ValueError of relative_to for a listed path outside TEMPLATES_DIR.
CycleError(stack, path) ==
    LET ps == ChainPaths(stack, path)
        rels == [i \in 1..Len(ps) |-> RelativeTo(ps[i], TEMPLATES_DIR)]
    IN IF \A i \in 1..Len(ps) : rels[i].ok
       THEN [type |-> "RuntimeError",
             chain |-> Join(" -> ", [i \in 1..Len(ps) |-> rels[i].rel])]
       ELSE [type |-> "ValueError"]

\* The stack a recursive call is given: (*stack, path)
CalleeStack(stack, path) == Append(stack, path)

\* include_path = TEMPLATES_DIR / include_rel
IncludePath(include_rel) == JoinPath(TEMPLATES_DIR, include_rel)

MissingIncludeError(include_path) == [type |-> "FileNotFoundError", path |-> include_path]

MissingVariableError(key, path) == [type |-> "KeyError", key |-> key, path |-> path]

\* read_text of a path that is no file
ReadError(path) == [type |-> "OSError", path |-> path]

\* var_replacer: the replacement of one VAR_RE match, or the KeyError.
var_replacer(tok, ctx, path) ==
    IF tok.key \notin DOMAIN ctx
    THEN [ok |-> FALSE, err |-> MissingVariableError(tok.key, path)]
    ELSE [ok |-> TRUE, text |-> ctx[tok.key]]

\* VAR_RE.sub(var_replacer, text): every match replaced, left to right; the
\* replacement text is not scanned again by this pass.
RECURSIVE VarSub(_, _, _)
VarSub(text, ctx, path) ==
    IF Len(text) = 0 THEN [ok |-> TRUE, text |-> <<>>]
    ELSE LET head == IF VAR_RE(text[1])
                     THEN var_replacer(text[1], ctx, path)
                     ELSE [ok |-> TRUE, text |-> <<text[1]>>]
         IN IF ~head.ok THEN head
            ELSE LET rest == VarSub(Tail(text), ctx, path)
                 IN IF ~rest.ok THEN rest
                    ELSE [ok |-> TRUE, text |-> head.text \o rest.text]

\* Mutant: the matches taken from the right.
NextMatchLast(text, pos) ==
    LET ms == { i \in pos..Len(text) : INCLUDE_RE(text[i]) }
    IN IF ms = {} THEN 0 ELSE CHOOSE i \in ms : \A j \in ms : i >= j

\* The position of the next INCLUDE_RE match at or after pos; 0 if none.
NextMatch(text, pos) ==
    LET ms == { i \in pos..Len(text) : INCLUDE_RE(text[i]) }
    IN IF ms = {} THEN 0 ELSE CHOOSE i \in ms : \A j \in ms : i <= j

\* An activation of _render_template: its arguments, the text read, and how
\* far INCLUDE_RE.sub has come: pos is the next position to scan, at the
\* match whose replacement is being computed (0: none), out the result so far.
NewFrame(path, stack, text) ==
    [path |-> path, stack |-> stack, text |-> text, pos |-> 1, at |-> 0, out |-> <<>>]

\* raise: the exception leaves every activation and main; frs are the
\* activations at the moment of the raise (the traceback).
Raise(e, frs) ==
    /\ pc' = "aborted"
    /\ error' = e
    /\ frames' = frs
    /\ reads' = reads

\* Lines 15-20 of a call _render_template(path, context, stack) made with
\* the activations frs below it.
Enter(path, stack, frs) ==
    IF InStack(path, stack)
    THEN Raise(CycleError(stack, path), frs)
    ELSE IF ~CanRead(fs', path)
    THEN Raise(ReadError(path), frs)
    ELSE /\ frames' = Append(frs, NewFrame(path, stack, fs'[path].text))
         /\ reads' = Append(reads, path)
         /\ pc' = "render"
         /\ error' = error

----------------------------------------------------------------------------
\* _render_template as the recursive function it is: the value it returns or
\* the exception it raises, with the files read on the way, in order.
\* depth only bounds the evaluation; the cycle check ends the recursion first.

MaxDepth == Cardinality(Paths) + 2

RECURSIVE Render(_, _, _, _, _)
RECURSIVE IncludeSub(_, _, _, _, _, _)

\* INCLUDE_RE.sub(include_replacer, text), lines 22-29.
IncludeSub(f, ctx, path, stack, text, depth) ==
    IF Len(text) = 0 THEN [ok |-> TRUE, text |-> <<>>, reads |-> <<>>]
    ELSE LET head ==
                 IF INCLUDE_RE(text[1])
                 THEN LET include_path == IncludePath(text[1].rel)
                      IN IF ~Exists(f, include_path)
                         THEN [ok |-> FALSE, err |-> MissingIncludeError(include_path),
                               reads |-> <<>>]
                         ELSE Render(f, ctx, include_path, CalleeStack(stack, path),
                                     depth - 1)
                 ELSE [ok |-> TRUE, text |-> <<text[1]>>, reads |-> <<>>]
         IN IF ~head.ok THEN head
            ELSE LET rest == IncludeSub(f, ctx, path, stack, Tail(text), depth)
                 IN IF ~rest.ok
                    THEN [ok |-> FALSE, err |-> rest.err, reads |-> head.reads \o rest.reads]
                    ELSE [ok |-> TRUE, text |-> head.text \o rest.text,
                          reads |-> head.reads \o rest.reads]

\* _render_template(path, context, stack), lines 15-37.
Render(f, ctx, path, stack, depth) ==
    IF InStack(path, stack)
    THEN [ok |-> FALSE, err |-> CycleError(stack, path), reads |-> <<>>]
    ELSE IF ~CanRead(f, path)
    THEN [ok |-> FALSE, err |-> ReadError(path), reads |-> <<>>]
    ELSE IF depth <= 0
    THEN [ok |-> FALSE, err |-> [type |-> "RecursionError"], reads |-> <<path>>]
    ELSE LET inc == IncludeSub(f, ctx, path, stack, f[path].text, depth)
         IN IF ~inc.ok
            THEN [ok |-> FALSE, err |-> inc.err, reads |-> <<path>> \o inc.reads]
            ELSE LET sub == VarSub(inc.text, ctx, path)
                 IN IF ~sub.ok
                    THEN [ok |-> FALSE, err |-> sub.err, reads |-> <<path>> \o inc.reads]
                    ELSE [ok |-> TRUE, text |-> sub.text, reads |-> <<path>> \o inc.reads]

----------------------------------------------------------------------------
\* main

NoArgs == [current |-> "none"]
NoContext == <<>>
NotWritten == [st |-> "absent"]
Written(text) == [st |-> "written", text |-> text]

Outputs == { Pages[i].output : i \in 1..Len(Pages) }

IsSpace(tok) == tok.t = "lit" /\ tok.ch \in {" ", "\n", "\t"}

\* str.rstrip()
RECURSIVE rstrip(_)
rstrip(text) ==
    IF Len(text) > 0 /\ IsSpace(text[Len(text)])
    THEN rstrip(SubSeq(text, 1, Len(text) - 1))
    ELSE text

\* rendered = ....rstrip() + "\n"
Trimmed(text) == rstrip(text) \o <<Lit("\n")>>

Init ==
    /\ fs = [p \in Paths |-> Unread]
    /\ pageIdx = 1
    /\ pc = "idle"
    /\ args = NoArgs
    /\ context = NoContext
    /\ frames = <<>>
    /\ rendered = <<>>
    /\ error = NoError
    /\ written = [o \in Outputs |-> NotWritten]
    /\ reads = <<>>
    /\ printed = <<>>

\* Mutant: the output file is opened for writing before the render.
StartPageOpenFirst ==
    /\ pc = "idle"
    /\ pageIdx <= Len(Pages)
    /\ \E a \in PageArgs, c \in Reveal(fs, Pages[pageIdx].template) :
         /\ fs' = [fs EXCEPT ![Pages[pageIdx].template] = c]
         /\ args' = a
         /\ context' = _page_context(a.asset_prefix, a.page_title,
                                     a.page_description, a.current)
         /\ Enter(Pages[pageIdx].template, <<>>, <<>>)
    /\ written' = [written EXCEPT ![Pages[pageIdx].output] = Written(<<>>)]
    /\ UNCHANGED <<pageIdx, rendered, printed>>

\* A loop iteration begins: the page's context is built and the call
\* _render_template(page["template"], page["context"]) is entered.
StartPage ==
    /\ pc = "idle"
    /\ pageIdx <= Len(Pages)
    /\ \E a \in PageArgs, c \in Reveal(fs, Pages[pageIdx].template) :
         /\ fs' = [fs EXCEPT ![Pages[pageIdx].template] = c]
         /\ args' = a
         /\ context' = _page_context(a.asset_prefix, a.page_title,
                                     a.page_description, a.current)
         /\ Enter(Pages[pageIdx].template, <<>>, <<>>)
    /\ UNCHANGED <<pageIdx, rendered, written, printed>>

\* INCLUDE_RE.sub reaches its next match in the running activation and calls
\* include_replacer: lines 23-27.
Include ==
    /\ pc = "render"
    /\ frames # <<>>
    /\ LET n == Len(frames)
           f == frames[n]
           i == NextMatch(f.text, f.pos)
       IN /\ i # 0
          /\ LET include_path == IncludePath(f.text[i].rel)
                 g == [f EXCEPT !.out = f.out \o SubSeq(f.text, f.pos, i - 1),
                                !.at = i, !.pos = i + 1]
                 frs == [frames EXCEPT ![n] = g]
             IN \E c \in Reveal(fs, include_path) :
                  /\ fs' = [fs EXCEPT ![include_path] = c]
                  /\ IF ~Exists(fs', include_path)
                     THEN Raise(MissingIncludeError(include_path), frs)
                     ELSE Enter(include_path, CalleeStack(f.stack, f.path), frs)
    /\ UNCHANGED <<pageIdx, args, context, rendered, written, printed>>

\* INCLUDE_RE.sub has no match left in the running activation: line 37,
\* VAR_RE.sub over the expanded text, and the return to the caller.
Substitute ==
    /\ pc = "render"
    /\ frames # <<>>
    /\ LET n == Len(frames)
           f == frames[n]
       IN /\ NextMatch(f.text, f.pos) = 0
          /\ LET expanded == f.out \o SubSeq(f.text, f.pos, Len(f.text))
                 r == VarSub(expanded, context, f.path)
             IN IF ~r.ok
                THEN Raise(r.err, frames) /\ rendered' = rendered
                ELSE IF n = 1
                THEN /\ rendered' = r.text
                     /\ frames' = <<>>
                     /\ pc' = "rendered"
                     /\ UNCHANGED <<error, reads>>
                ELSE /\ frames' = [SubSeq(frames, 1, n - 1) EXCEPT
                                     ![n - 1].out = @ \o r.text, ![n - 1].at = 0]
                     /\ UNCHANGED <<pc, rendered, error, reads>>
    /\ UNCHANGED <<fs, pageIdx, args, context, written, printed>>

\* Lines 131-135 after the render returned: the write and the report.
WritePage ==
    /\ pc = "rendered"
    /\ written' = [written EXCEPT ![Pages[pageIdx].output] = Written(Trimmed(rendered))]
    /\ printed' = Append(printed,
                         <<RelativeTo(Pages[pageIdx].output, ROOT_DIR).rel,
                           RelativeTo(Pages[pageIdx].template, ROOT_DIR).rel>>)
    /\ pageIdx' = pageIdx + 1
    /\ pc' = IF pageIdx + 1 > Len(Pages) THEN "done" ELSE "idle"
    /\ reads' = <<>>
    /\ UNCHANGED <<fs, args, context, frames, rendered, error>>

Next == StartPage \/ Include \/ Substitute \/ WritePage

Spec == Init /\ [][Next]_vars

----------------------------------------------------------------------------
\* Properties

A_HTML == JoinPath(TEMPLATES_DIR, <<"a.html">>)
B_HTML == JoinPath(TEMPLATES_DIR, <<"b.html">>)
O_HTML == JoinPath(TEMPLATES_DIR, <<"/", "o.html">>)

Top == frames[Len(frames)]

FramePaths == [k \in 1..Len(frames) |-> frames[k].path]

\* The path of the include directive whose replacement the running
\* activation was computing.
PendingPath == JoinPath(TEMPLATES_DIR, Top.text[Top.at].rel)

\* A raise out of a call of _render_template made by include_replacer.
RaisedAtInclude == pc = "aborted" /\ frames # <<>> /\ Top.at # 0

\* The call that raised was entered for a path on its ancestor stack.
EnteredOnStack == RaisedAtInclude /\ PendingPath \in Range(FramePaths)

\* How a path reads in a chain: relative to the template root.
ShownAs(p) == IF IsUnder(p, TEMPLATES_DIR) THEN SubSeq(p, Len(TEMPLATES_DIR) + 1, Len(p)) ELSE p

RECURSIVE Arrowed(_)
Arrowed(ps) ==
    IF Len(ps) = 0 THEN <<>>
    ELSE IF Len(ps) = 1 THEN ShownAs(ps[1])
    ELSE ShownAs(ps[1]) \o <<" -> ">> \o Arrowed(Tail(ps))

\* C1: a call entered for a path that is on its ancestor stack raises the
\* cycle error, and the chain it reports is the ancestors from the top-level
\* template down to the caller, then the repeated path, joined by " -> ".
C1_CycleChain ==
    EnteredOnStack =>
        /\ error.type = "RuntimeError"
        /\ error.chain = Arrowed(Append(FramePaths, PendingPath))

\* C1 where every path of the chain is under the template root.
C1_CycleChainUnderRoot ==
    (EnteredOnStack /\ \A p \in Range(FramePaths) : IsUnder(p, TEMPLATES_DIR)) =>
        /\ error.type = "RuntimeError"
        /\ error.chain = Arrowed(Append(FramePaths, PendingPath))

C1_TransitiveCycle ==
    /\ EnteredOnStack
    /\ error.type = "RuntimeError"
    /\ error.chain = <<"a.html", " -> ", "b.html", " -> ", "a.html">>

C1_AbsoluteCycle ==
    /\ EnteredOnStack
    /\ error.type = "ValueError"

\* C8: the stack of every activation holds no path twice and not the
\* activation's own path; the top-level activation has the empty stack and
\* every other one its caller's stack with the caller's path appended.
C8_StackInvariant ==
    \A k \in 1..Len(frames) :
        /\ frames[k].path \notin Range(frames[k].stack)
        /\ \A i, j \in 1..Len(frames[k].stack) :
               frames[k].stack[i] = frames[k].stack[j] => i = j
        /\ k = 1 => frames[k].stack = <<>>
        /\ k > 1 => frames[k].stack = Append(frames[k - 1].stack, frames[k - 1].path)

C8_DeepStack == Len(frames) = 3 /\ pc = "render"

\* What INCLUDE_RE.sub has produced for the first n tokens of an activation's
\* text: a token outside every match as it is, a directive as the value the
\* recursive call returns.
RECURSIVE ExpectedOut(_, _)
ExpectedOut(fr, n) ==
    IF n = 0 THEN <<>>
    ELSE ExpectedOut(fr, n - 1) \o
         ( IF fr.text[n].t = "inc"
           THEN LET r == Render(fs, context, JoinPath(TEMPLATES_DIR, fr.text[n].rel),
                                Append(fr.stack, fr.path), MaxDepth)
                IN IF r.ok THEN r.text ELSE <<[t |-> "raised"]>>
           ELSE <<fr.text[n]>> )

\* The tokens of an activation's text that INCLUDE_RE.sub is done with.
Completed(fr) == IF fr.at # 0 THEN fr.at - 1 ELSE fr.pos - 1

PageTemplate == Pages[pageIdx].template
PageOutput == Pages[pageIdx].output

\* The whole call of the page being built, as a function of its inputs.
PageRender == Render(fs, context, PageTemplate, <<>>, MaxDepth)

\* The text of a template with every directive replaced by the text of the
\* template it names, recursively, and no variable touched.
RECURSIVE ExpandIncludes(_, _)
ExpandIncludes(path, depth) ==
    IF depth <= 0 \/ fs[path].st # "file" THEN <<[t |-> "raised"]>>
    ELSE LET text == fs[path].text
             piece(n) == IF text[n].t = "inc"
                         THEN ExpandIncludes(JoinPath(TEMPLATES_DIR, text[n].rel), depth - 1)
                         ELSE <<text[n]>>
             F[n \in 0..Len(text)] == IF n = 0 THEN <<>> ELSE F[n - 1] \o piece(n)
         IN F[Len(text)]

\* Each placeholder of a text replaced once by its context value; "raised"
\* stands in for a placeholder with no value.
ReplaceOnce(text) ==
    LET piece(n) == IF text[n].t = "var"
                    THEN IF text[n].key \in DOMAIN context
                         THEN context[text[n].key] ELSE <<[t |-> "raised"]>>
                    ELSE <<text[n]>>
        F[n \in 0..Len(text)] == IF n = 0 THEN <<>> ELSE F[n - 1] \o piece(n)
    IN F[Len(text)]

\* The template files in the order a depth-first, left-to-right walk of the
\* include tree meets them.
RECURSIVE PreOrder(_, _)
PreOrder(path, depth) ==
    IF depth <= 0 \/ fs[path].st # "file" THEN <<path>>
    ELSE LET text == fs[path].text
             piece(n) == IF text[n].t = "inc"
                         THEN PreOrder(JoinPath(TEMPLATES_DIR, text[n].rel), depth - 1)
                         ELSE <<>>
             F[n \in 0..Len(text)] == IF n = 0 THEN <<>> ELSE F[n - 1] \o piece(n)
         IN <<path>> \o F[Len(text)]

\* C2: a missing-variable error names a key absent from the context and the
\* template whose text holds the placeholder, the one VAR_RE.sub was running
\* for; no text is returned; and a render that returns met no placeholder
\* with an absent key.
C2_MissingVariable ==
    /\ (pc = "aborted" /\ error.type = "KeyError") =>
           /\ error.key \notin DOMAIN context
           /\ error.path = Top.path
           /\ Var(error.key) \in Range(fs[error.path].text)
           /\ written[PageOutput] = NotWritten
    /\ pc = "rendered" =>
           \A p \in Range(reads) : \A tok \in Range(fs[p].text) :
               tok.t = "var" => tok.key \in DOMAIN context

\* C3: the text a render returns is the two-phase reference: every include
\* spliced in until none remains, then each placeholder of that text
\* replaced once by its context value.
C3_TwoPhase ==
    pc = "rendered" => rendered = ReplaceOnce(ExpandIncludes(PageTemplate, MaxDepth))

\* C4: a cycle error is raised only for a path that is on the ancestor chain
\* of the call, never for one rendered before in a sibling branch; and every
\* inclusion done, a repeated one too, is replaced by the included
\* template's own render.
C4_Diamond ==
    /\ (pc = "aborted" /\ error.type \in {"RuntimeError", "ValueError"}) => EnteredOnStack
    /\ \A k \in 1..Len(frames) : frames[k].out = ExpectedOut(frames[k], Completed(frames[k]))
    /\ pc = "rendered" => PageRender.ok /\ rendered = PageRender.text

\* o.html is included by a.html and by b.html in one successful render.
C4_DiamondRendered ==
    /\ pc = "rendered"
    /\ reads = <<A_HTML, B_HTML, O_HTML, O_HTML>>

\* C5: an include directive whose path under the template root is no file
\* raises the missing-include error naming that path, before the path is
\* read and before any placeholder of the including template is replaced,
\* and no text is returned; no call is ever made for such a path.
C5_MissingInclude ==
    /\ (RaisedAtInclude /\ fs[PendingPath].st = "missing") =>
           /\ error = [type |-> "FileNotFoundError", path |-> PendingPath]
           /\ PendingPath \notin Range(reads)
           /\ Top.out = ExpectedOut(Top, Top.at - 1)
           /\ written[PageOutput] = NotWritten
    /\ (pc = "aborted" /\ error.type = "FileNotFoundError") =>
           RaisedAtInclude /\ fs[PendingPath].st = "missing"
    /\ \A k \in 1..Len(frames) : fs[frames[k].path].st = "file"

C5_NestedMissingInclude ==
    /\ pc = "aborted"
    /\ error.type = "FileNotFoundError"
    /\ Len(frames) = 2
    /\ \E n \in 1..Len(Top.out) : Top.out[n].t = "var"

\* C6: a page whose render raised has no output written in the run; an
\* output is written only once its page's render has returned, and what is
\* written is the trimmed text that render returned.
C6_NoPartialOutput ==
    /\ error # NoError => pc = "aborted" /\ written[PageOutput] = NotWritten
    /\ \A i \in 1..Len(Pages) : written[Pages[i].output] # NotWritten => i < pageIdx
    /\ (pc \in {"idle", "done"} /\ pageIdx > 1) =>
           LET r == Render(fs, context, Pages[pageIdx - 1].template, <<>>, MaxDepth)
           IN r.ok /\ written[Pages[pageIdx - 1].output] = Written(Trimmed(r.text))

\* The second page fails after an include of it was expanded; the first is
\* written.
C6_FailedAfterExpansion ==
    /\ pc = "aborted"
    /\ pageIdx = 2
    /\ Len(reads) >= 2
    /\ written[Pages[1].output] # NotWritten

Items == {"brand", "home", "motorists", "law"}
Regions == {"nav", "footer"}

\* <item>_aria and <item>_current_class of a region in a context.
Marks(ctx, region, item) ==
    CASE region = "nav" /\ item = "brand" -> <<ctx.nav_brand_aria, ctx.nav_brand_current_class>>
      [] region = "nav" /\ item = "home" -> <<ctx.nav_home_aria, ctx.nav_home_current_class>>
      [] region = "nav" /\ item = "motorists" ->
             <<ctx.nav_motorists_aria, ctx.nav_motorists_current_class>>
      [] region = "nav" /\ item = "law" -> <<ctx.nav_law_aria, ctx.nav_law_current_class>>
      [] region = "footer" /\ item = "brand" ->
             <<ctx.footer_brand_aria, ctx.footer_brand_current_class>>
      [] region = "footer" /\ item = "home" ->
             <<ctx.footer_home_aria, ctx.footer_home_current_class>>
      [] region = "footer" /\ item = "motorists" ->
             <<ctx.footer_motorists_aria, ctx.footer_motorists_current_class>>
      [] region = "footer" /\ item = "law" ->
             <<ctx.footer_law_aria, ctx.footer_law_current_class>>

ContextBuilt == args.current # "none"

\* C7 as claimed: in both regions every item, brand too, has a non-empty
\* aria and class exactly when the item equals current.
C7_CurrentExactly ==
    ContextBuilt =>
        \A region \in Regions, item \in Items :
            LET m == Marks(context, region, item)
            IN IF item = args.current
               THEN m[1] # EMPTY /\ m[2] # EMPTY
               ELSE m[1] = EMPTY /\ m[2] = EMPTY

\* C7 as amended: home, motorists and law are marked exactly when the item
\* equals current; brand is marked exactly when current is "home".
C7_CurrentBrandAsHome ==
    ContextBuilt =>
        \A region \in Regions, item \in Items :
            LET m == Marks(context, region, item)
                ident == IF item = "brand" THEN "home" ELSE item
            IN IF ident = args.current
               THEN m[1] # EMPTY /\ m[2] # EMPTY
               ELSE m[1] = EMPTY /\ m[2] = EMPTY

\* The home page: brand and home are marked, law is not.
C7_HomePage ==
    /\ ContextBuilt
    /\ args.current = "home"
    /\ context.nav_brand_aria = ARIA_CURRENT
    /\ context.footer_home_current_class = W_CURRENT
    /\ context.nav_law_aria = EMPTY

\* C9: the files a render reads are the depth-first, left-to-right walk of
\* the include tree, one read per inclusion reached; a caller waits at the
\* directive it is replacing, the scan standing right behind it; and the
\* outcome is the one of the first failing directive in that order.
C9_DepthFirstOrder ==
    /\ \A k \in 1..Len(frames) :
           /\ k < Len(frames) => frames[k].at # 0
           /\ frames[k].at # 0 => frames[k].pos = frames[k].at + 1
    /\ pc = "rendered" =>
           /\ reads = PreOrder(PageTemplate, MaxDepth)
           /\ PageRender.ok /\ rendered = PageRender.text
    /\ pc \in {"rendered", "aborted"} => reads = PageRender.reads
    /\ pc = "aborted" => ~PageRender.ok /\ error = PageRender.err

\* A directive left of a failing one was rendered in full, twice over.
C9_FailsAfterRepeatedInclude ==
    /\ pc = "aborted"
    /\ Len(reads) = 3
    /\ reads[2] = reads[3]

\* C10: a render ends, with text or with one of the three errors, and the
\* recursion is never deeper than the number of template paths plus one.
C10_EndsWithKnownOutcome ==
    /\ Len(frames) <= Cardinality(Paths) + 1
    /\ pc = "render" => ENABLED (Include \/ Substitute)
    /\ (pc = "aborted" /\ error.type # "OSError") =>
           error.type \in {"RuntimeError", "FileNotFoundError", "KeyError"}

\* The part of C10 that does not rest on the kind of error raised.
C10_DepthAndProgress ==
    /\ Len(frames) <= Cardinality(Paths) + 1
    /\ pc = "render" => ENABLED (Include \/ Substitute)

====
